---- MODULE Spec2Model ----
(***************************************************************************)
(* prefect/utilities/executors.py: the Heartbeat background loop, the      *)
(* run_with_heartbeat decorator and timeout_handler.                        *)
(*                                                                         *)
(* Threads: the caller (owner of the Heartbeat, caller of                  *)
(* timeout_handler), the looper threads of the Heartbeat's executors, and  *)
(* the worker thread of timeout_handler's executor.  Time advances in      *)
(* whole seconds by the action Second.                                     *)
(***************************************************************************)
EXTENDS Integers, FiniteSets, Sequences, TLC

\* ------------------------------------------------------------- bounds
MaxInterval == 2      \* heartbeat_interval ranges over 1..MaxInterval
MaxTimeout == 1       \* a given timeout ranges over 1..MaxTimeout seconds
MaxSteps == 2         \* fn performs 1..MaxSteps side-effecting steps
MaxStarts == 2        \* start() calls made by a free owner (SpecHB)
MaxCancels == 2       \* cancel() calls made by a free owner (SpecHB)

\* ------------------------------------------------------------- values
NoTimeout == 0        \* timeout=None
NoExecutor == 0       \* the Heartbeat has no attribute "executor"

Intervals == 1..MaxInterval
Timeouts == 1..MaxTimeout
LoopIds == 1..MaxStarts
Args == {"a1", "a2"}
Results == {"r1", "r2"}
CtxVals == {"c0", "c1"}
FnCtxWrite == "cw"                    \* what fn stores in the context
DefaultCtx == "c0"                    \* a fresh thread's context
Threads == {"caller", "worker"}

\* An outcome is a returned value or a raised exception object; origin
\* tells exception objects of the same type apart.
Ret(v) == [kind |-> "ret", val |-> v, origin |-> "value"]
Raise(t, o) == [kind |-> "raise", val |-> t, origin |-> o]
Nothing == [kind |-> "none", val |-> "none", origin |-> "none"]
FnExcTypes == {"Exception", "TimeoutError", "FutureTimeout"}
ProbeExcTypes == {"Exception", "BaseException"}
FnOutcomes == {Ret(v) : v \in Results} \cup {Raise(t, "fn") : t \in FnExcTypes}
TimedOut == Raise("TimeoutError", "timeout_handler")

\* mutant of IsException: the handler catches nothing
IsExceptionNever(t) == FALSE

\* `except Exception`: every exception type of the model but BaseException
IsException(t) == t # "BaseException"
\* `except FutureTimeout`: concurrent.futures.TimeoutError
IsFutureTimeout(t) == t = "FutureTimeout"

Min(a, b) == IF a <= b THEN a ELSE b

VARIABLES
    \* Heartbeat
    interval, rate, _exit, executor, loops,
    \* the owner of the Heartbeat (run_with_heartbeat.inner, or a free owner)
    pc, args, probe, logged, invoked, mArgs, pending, starts, cancels, joined,
    sinceCall, lateCall, flagCalls, flagSecs,
    \* timeout_handler and its worker
    thPc, thTimeout, thOut, elapsed, thExecutors, fut, _ctx_dict, taskArgs,
    wPc, wPrev, ctx,
    \* fn
    fnLen, fnHangs, fnOut, fnThread, fnArgs, fnCtx, effects, late

hbVars == <<interval, rate, _exit, executor, loops>>
ownerVars == <<pc, args, probe, logged, invoked, mArgs, pending, starts,
               cancels, joined, sinceCall, lateCall, flagCalls, flagSecs>>
thVars == <<thPc, thTimeout, thOut, elapsed, thExecutors, fut, _ctx_dict,
            taskArgs, wPc, wPrev, ctx>>
fnVars == <<fnLen, fnHangs, fnOut, fnThread, fnArgs, fnCtx,
            effects, late>>
vars == <<hbVars, ownerVars, thVars, fnVars>>

\* ------------------------------------------------------------- Heartbeat

\* mutant of Rate: max for min
RateMax(i) == IF i >= 1 THEN i ELSE 1

\* Heartbeat.__init__: self.rate = min(interval, 1)
Rate(i) == Min(i, 1)

\* looper: round(iters % self.rate) == 0
Due(iters, r) == iters % r = 0

\* looper: iters = (iters + 1) % self.interval
NextIters(iters, i) == (iters + 1) % i

\* born: the value of _exit when the looper was submitted
NoLoop == [pc |-> "none", iters |-> 0, born |-> FALSE]

\* the looper is between its submission and its end
Running(l) == loops[l].pc \in {"test", "due", "call", "sleep"}

HeartbeatInit ==
    /\ interval \in Intervals
    /\ rate = Rate(interval)
    /\ _exit = FALSE
    /\ executor = NoExecutor
    /\ loops = [l \in LoopIds |-> NoLoop]
    /\ sinceCall = 0
    /\ lateCall = FALSE
    /\ flagCalls = 0
    /\ flagSecs = 0
    /\ starts = 0
    /\ cancels = 0
    /\ joined = FALSE

\* mutant of HeartbeatStart: start() clears the flag
HeartbeatStartReset ==
    /\ starts < MaxStarts
    /\ starts' = starts + 1
    /\ executor' = starts + 1
    /\ loops' = [loops EXCEPT ![starts + 1] =
                    [pc |-> "test", iters |-> 0, born |-> _exit]]
    /\ sinceCall' = 0
    /\ _exit' = FALSE
    /\ UNCHANGED <<interval, rate>>

\* Heartbeat.start: a new executor replaces self.executor and a looper
\* is submitted to it
HeartbeatStart ==
    /\ starts < MaxStarts
    /\ starts' = starts + 1
    /\ executor' = starts + 1
    /\ loops' = [loops EXCEPT ![starts + 1] =
                    [pc |-> "test", iters |-> 0, born |-> _exit]]
    /\ sinceCall' = 0
    /\ UNCHANGED <<interval, rate, _exit>>

\* Heartbeat.cancel, up to the call of shutdown()
HeartbeatCancel ==
    /\ _exit' = TRUE
    /\ cancels' = cancels + 1
    /\ UNCHANGED <<interval, rate, executor, loops>>

\* mutant of ShutdownDone: shutdown(wait=False)
ShutdownNoWait == TRUE

\* executor.shutdown() joins the threads of self.executor
ShutdownDone == loops[executor].pc \in {"exit", "dead"}

\* mutant of LooperTest: each looper reads a flag of its own executor,
\* which cancel() sets for the last executor only
LooperTestOwnFlag(l) ==
    /\ loops[l].pc = "test"
    /\ IF _exit /\ l = executor
         THEN loops' = [loops EXCEPT ![l].pc = "exit"]
         ELSE IF Due(loops[l].iters, rate)
                THEN loops' = [loops EXCEPT ![l].pc = "due"]
                ELSE loops' = [loops EXCEPT
                                 ![l].iters = NextIters(@, interval),
                                 ![l].pc = "sleep"]
    /\ UNCHANGED <<interval, rate, _exit, executor>>
    /\ UNCHANGED <<ownerVars, thVars, fnVars>>

\* looper: the test of `while not self._exit` and of the tick being due
LooperTest(l) ==
    /\ loops[l].pc = "test"
    /\ IF _exit
         THEN loops' = [loops EXCEPT ![l].pc = "exit"]
         ELSE IF Due(loops[l].iters, rate)
                THEN loops' = [loops EXCEPT ![l].pc = "due"]
                ELSE loops' = [loops EXCEPT
                                 ![l].iters = NextIters(@, interval),
                                 ![l].pc = "sleep"]
    /\ UNCHANGED <<interval, rate, _exit, executor>>
    /\ UNCHANGED <<ownerVars, thVars, fnVars>>

\* looper: self.function() is called, after the test of the flag
LooperCall(l) ==
    /\ loops[l].pc = "due"
    /\ loops' = [loops EXCEPT ![l].pc = "call"]
    /\ sinceCall' = 0
    /\ lateCall' = (lateCall \/ joined)
    /\ flagCalls' = IF _exit THEN Min(flagCalls + 1, MaxStarts + 1)
                            ELSE flagCalls
    /\ UNCHANGED <<interval, rate, _exit, executor>>
    /\ UNCHANGED <<pc, args, probe, logged, invoked, mArgs, pending, starts,
                   cancels, joined, flagSecs>>
    /\ UNCHANGED <<thVars, fnVars>>

\* mutant of LooperCallReturn: the call is repeated without a new test
\* of the flag
LooperCallReturnNoTest(l) ==
    /\ loops[l].pc = "call"
    /\ loops' = [loops EXCEPT ![l].iters = NextIters(@, interval),
                              ![l].pc = "due"]
    /\ UNCHANGED <<interval, rate, _exit, executor>>
    /\ UNCHANGED <<ownerVars, thVars, fnVars>>

\* looper: self.function() returns; iters advances and the thread sleeps
LooperCallReturn(l) ==
    /\ loops[l].pc = "call"
    /\ loops' = [loops EXCEPT ![l].iters = NextIters(@, interval),
                              ![l].pc = "sleep"]
    /\ UNCHANGED <<interval, rate, _exit, executor>>
    /\ UNCHANGED <<ownerVars, thVars, fnVars>>

\* mutant of LooperCallRaise: the looper sets the flag when the callback
\* fails
LooperCallRaiseStops(l) ==
    /\ loops[l].pc = "call"
    /\ loops' = [loops EXCEPT ![l].pc = "dead"]
    /\ _exit' = TRUE
    /\ UNCHANGED <<interval, rate, executor>>
    /\ UNCHANGED <<ownerVars, thVars, fnVars>>

\* looper: self.function() raises; the exception ends the looper and is
\* kept by the future nobody reads
LooperCallRaise(l) ==
    /\ loops[l].pc = "call"
    /\ loops' = [loops EXCEPT ![l].pc = "dead"]
    /\ UNCHANGED <<interval, rate, _exit, executor>>
    /\ UNCHANGED <<ownerVars, thVars, fnVars>>

\* ------------------------------------------------------------- context
\* prefect.context is thread-local and lives outside this file.

\* prefect.context.to_dict(): a copy of the calling thread's context
ContextToDict(t) == ctx[t]

\* `with prefect.context(d)`: the thread's context inside the block
ContextEnter(prev, d) == d

\* leaving the block: the thread's context is what it was before
ContextExit(prev, cur) == prev

\* ------------------------------------------------------------- fn

FnRunning == thPc = "sync" \/ wPc = "running"

\* timeout_handler has returned or raised: "expired" when the wait of
\* fut.result timed out, "returned" otherwise
Returned == thPc \in {"returned", "expired"}

\* fn(*args, **kwargs) is entered on thread t with arguments a
FnEnter(t, a, c) ==
    /\ fnThread' = t
    /\ fnArgs' = a
    /\ fnCtx' = c
    /\ UNCHANGED <<fnLen, fnHangs, fnOut, effects, late>>

\* one step of fn: a side effect, and possibly a write to the context of
\* the thread fn runs on
FnStep ==
    /\ FnRunning
    /\ effects < fnLen
    /\ effects' = effects + 1
    /\ late' = (late \/ thPc = "expired")
    /\ \E w \in BOOLEAN :
         ctx' = IF w THEN [ctx EXCEPT ![fnThread] = FnCtxWrite] ELSE ctx
    /\ UNCHANGED <<fnLen, fnHangs, fnOut, fnThread, fnArgs, fnCtx>>
    /\ UNCHANGED <<thPc, thTimeout, thOut, elapsed, thExecutors, fut,
                   _ctx_dict, taskArgs, wPc, wPrev>>
    /\ UNCHANGED <<hbVars, ownerVars>>

\* ------------------------------------------------------------- timeout_handler

\* mutant of TimeoutHandlerCall: the task is dispatched whether or not a
\* timeout is given
TimeoutHandlerCallSubmit(t, a) ==
    /\ thPc = "idle"
    /\ thTimeout' = t
    /\ thPc' = "waiting"
    /\ thExecutors' = thExecutors + 1
    /\ _ctx_dict' = ContextToDict("caller")
    /\ taskArgs' = a
    /\ wPc' = "queued"
    /\ elapsed' = 0
    /\ UNCHANGED <<thOut, fut, wPrev, ctx>>
    /\ UNCHANGED fnVars

\* timeout_handler(fn, *a, timeout=t): the synchronous call of fn when
\* timeout is None, else the executor, the snapshot and the submit
TimeoutHandlerCall(t, a) ==
    /\ thPc = "idle"
    /\ thTimeout' = t
    /\ IF t = NoTimeout
         THEN /\ thPc' = "sync"
              /\ FnEnter("caller", a, ctx["caller"])
              /\ UNCHANGED <<thOut, elapsed, thExecutors, fut, _ctx_dict,
                             taskArgs, wPc, wPrev, ctx>>
         ELSE /\ thPc' = "waiting"
              /\ thExecutors' = thExecutors + 1
              /\ _ctx_dict' = ContextToDict("caller")
              /\ taskArgs' = a
              /\ wPc' = "queued"
              /\ elapsed' = 0
              /\ UNCHANGED <<thOut, fut, wPrev, ctx>>
              /\ UNCHANGED fnVars

\* timeout is None: fn returns or raises on the caller's thread
SyncFinish ==
    /\ thPc = "sync"
    /\ effects = fnLen
    /\ ~fnHangs
    /\ \E o \in FnOutcomes :
         /\ fnOut' = o
         /\ thOut' = o
    /\ thPc' = "returned"
    /\ UNCHANGED <<thTimeout, elapsed, thExecutors, fut, _ctx_dict, taskArgs,
                   wPc, wPrev, ctx>>
    /\ UNCHANGED <<fnLen, fnHangs, fnThread, fnArgs, fnCtx, effects, late>>
    /\ UNCHANGED <<hbVars, ownerVars>>

\* mutant of WorkerStart: the caller's context is read when the task
\* runs, not when it is submitted
WorkerStartLateCtx ==
    /\ wPc = "queued"
    /\ wPc' = "running"
    /\ wPrev' = ctx["worker"]
    /\ ctx' = [ctx EXCEPT !["worker"] = ContextEnter(@, ctx["caller"])]
    /\ FnEnter("worker", taskArgs, ContextEnter(ctx["worker"], ctx["caller"]))
    /\ UNCHANGED <<thPc, thTimeout, thOut, elapsed, thExecutors, fut,
                   _ctx_dict, taskArgs>>
    /\ UNCHANGED <<hbVars, ownerVars>>

\* run_with_ctx on the worker thread: enter the context block, call fn
WorkerStart ==
    /\ wPc = "queued"
    /\ wPc' = "running"
    /\ wPrev' = ctx["worker"]
    /\ ctx' = [ctx EXCEPT !["worker"] = ContextEnter(@, _ctx_dict)]
    /\ FnEnter("worker", taskArgs, ContextEnter(ctx["worker"], _ctx_dict))
    /\ UNCHANGED <<thPc, thTimeout, thOut, elapsed, thExecutors, fut,
                   _ctx_dict, taskArgs>>
    /\ UNCHANGED <<hbVars, ownerVars>>

\* mutant of WorkerFinish: the context block is not left
WorkerFinishNoRevert ==
    /\ wPc = "running"
    /\ effects = fnLen
    /\ ~fnHangs
    /\ \E o \in FnOutcomes :
         /\ fnOut' = o
         /\ fut' = o
    /\ wPc' = "done"
    /\ UNCHANGED <<thPc, thTimeout, thOut, elapsed, thExecutors, _ctx_dict,
                   taskArgs, wPrev, ctx>>
    /\ UNCHANGED <<fnLen, fnHangs, fnThread, fnArgs, fnCtx, effects, late>>
    /\ UNCHANGED <<hbVars, ownerVars>>

\* run_with_ctx: fn returns or raises, the context block is left and the
\* future takes the outcome
WorkerFinish ==
    /\ wPc = "running"
    /\ effects = fnLen
    /\ ~fnHangs
    /\ \E o \in FnOutcomes :
         /\ fnOut' = o
         /\ fut' = o
    /\ wPc' = "done"
    /\ ctx' = [ctx EXCEPT !["worker"] = ContextExit(wPrev, @)]
    /\ UNCHANGED <<thPc, thTimeout, thOut, elapsed, thExecutors, _ctx_dict,
                   taskArgs, wPrev>>
    /\ UNCHANGED <<fnLen, fnHangs, fnThread, fnArgs, fnCtx, effects, late>>
    /\ UNCHANGED <<hbVars, ownerVars>>

\* what `try: return fut.result(...) except FutureTimeout: raise
\* TimeoutError(...)` hands to the caller for a finished future
Delivered(o) ==
    IF o.kind = "raise" /\ IsFutureTimeout(o.val) THEN TimedOut ELSE o

\* fut.result(timeout=timeout): the future is finished
ResultReady ==
    /\ thPc = "waiting"
    /\ fut # Nothing
    /\ thOut' = Delivered(fut)
    /\ thPc' = "returned"
    /\ UNCHANGED <<thTimeout, elapsed, thExecutors, fut, _ctx_dict, taskArgs,
                   wPc, wPrev, ctx>>
    /\ UNCHANGED <<hbVars, ownerVars, fnVars>>

\* mutant of ResultTimeout: the executor is a `with` block, whose exit
\* joins the worker before the TimeoutError leaves
ResultTimeoutJoin ==
    /\ thPc = "waiting"
    /\ wPc = "done"
    /\ elapsed >= thTimeout
    /\ thOut' = Delivered(Raise("FutureTimeout", "result"))
    /\ thPc' = "expired"
    /\ UNCHANGED <<thTimeout, elapsed, thExecutors, fut, _ctx_dict, taskArgs,
                   wPc, wPrev, ctx>>
    /\ UNCHANGED <<hbVars, ownerVars, fnVars>>

\* mutant of ResultTimeout: the timeout cancels the dispatched task
ResultTimeoutCancel ==
    /\ thPc = "waiting"
    /\ fut = Nothing
    /\ elapsed >= thTimeout
    /\ thOut' = Delivered(Raise("FutureTimeout", "result"))
    /\ thPc' = "expired"
    /\ wPc' = "cancelled"
    /\ UNCHANGED <<thTimeout, elapsed, thExecutors, fut, _ctx_dict, taskArgs,
                   wPrev, ctx>>
    /\ UNCHANGED <<hbVars, ownerVars, fnVars>>

\* fut.result(timeout=timeout): the wait times out on an unfinished
\* future; FutureTimeout becomes TimeoutError("Execution timed out.")
ResultTimeout ==
    /\ thPc = "waiting"
    /\ fut = Nothing
    /\ elapsed >= thTimeout
    /\ thOut' = Delivered(Raise("FutureTimeout", "result"))
    /\ thPc' = "expired"
    /\ UNCHANGED <<thTimeout, elapsed, thExecutors, fut, _ctx_dict, taskArgs,
                   wPc, wPrev, ctx>>
    /\ UNCHANGED <<hbVars, ownerVars, fnVars>>

\* after timeout_handler has returned, the caller's thread goes on and
\* may change its own context
ChangeContext ==
    /\ Returned
    /\ pc # "shutdown"
    /\ \E c \in CtxVals :
         /\ c # ctx["caller"]
         /\ ctx' = [ctx EXCEPT !["caller"] = c]
    /\ UNCHANGED <<thPc, thTimeout, thOut, elapsed, thExecutors, fut,
                   _ctx_dict, taskArgs, wPc, wPrev>>
    /\ UNCHANGED <<hbVars, ownerVars, fnVars>>

\* A second passes: time.sleep(self.rate) ends (rate is one second) and
\* the wait of fut.result(timeout=...) grows older.  A looper that is
\* ready to run runs before the next second, and a wait whose time is up
\* raises before the next second.
Second ==
    /\ \A l \in LoopIds : loops[l].pc \notin {"test", "due", "call"}
    /\ ~ENABLED ResultTimeout
    /\ loops' = [l \in LoopIds |->
                   IF loops[l].pc = "sleep"
                     THEN [loops[l] EXCEPT !.pc = "test"] ELSE loops[l]]
    /\ elapsed' = IF thPc = "waiting"
                    THEN Min(elapsed + 1, MaxTimeout + 1) ELSE elapsed
    /\ sinceCall' = IF executor # NoExecutor /\ ~_exit
                      THEN Min(sinceCall + 1, MaxInterval + 1) ELSE sinceCall
    /\ UNCHANGED <<interval, rate, _exit, executor>>
    /\ UNCHANGED <<pc, args, probe, logged, invoked, mArgs, pending, starts,
                   cancels, joined, lateCall, flagCalls>>
    /\ flagSecs' = IF _exit /\ \E l \in LoopIds : Running(l)
                     THEN Min(flagSecs + 1, 2) ELSE flagSecs
    /\ UNCHANGED <<thPc, thTimeout, thOut, thExecutors, fut, _ctx_dict,
                   taskArgs, wPc, wPrev, ctx>>
    /\ UNCHANGED fnVars

TimeoutHandlerInit ==
    /\ thPc = "idle"
    /\ thTimeout = NoTimeout
    /\ thOut = Nothing
    /\ elapsed = 0
    /\ thExecutors = 0
    /\ fut = Nothing
    /\ _ctx_dict = "none"
    /\ taskArgs = "none"
    /\ wPc = "none"
    /\ wPrev = "none"
    /\ ctx \in {c \in [Threads -> CtxVals] : c["worker"] = DefaultCtx}
    /\ fnLen \in 1..MaxSteps
    /\ fnHangs \in BOOLEAN
    /\ fnOut = Nothing
    /\ fnThread = "none"
    /\ fnArgs = "none"
    /\ fnCtx = "none"
    /\ effects = 0
    /\ late = FALSE

TimeoutHandlerNext ==
    \/ FnStep
    \/ SyncFinish
    \/ WorkerStart
    \/ WorkerFinish
    \/ ResultReady
    \/ ResultTimeout
    \/ ChangeContext

LooperNext ==
    \/ \E l \in LoopIds : LooperTest(l)
    \/ \E l \in LoopIds : LooperCall(l)
    \/ \E l \in LoopIds : LooperCallReturn(l)
    \/ \E l \in LoopIds : LooperCallRaise(l)

\* ------------------------------------------------------------- run_with_heartbeat

OwnerInit ==
    /\ args \in Args
    /\ probe = Nothing
    /\ logged = FALSE
    /\ invoked = 0
    /\ mArgs = "none"
    /\ pending = Nothing

\* mutant of InnerProbe: timer.start() whatever the probe returns
InnerProbeAlwaysStart ==
    /\ pc = "probe"
    /\ \/ /\ probe' \in {Ret("True"), Ret("False")}
          /\ HeartbeatStart
          /\ pc' = "method"
          /\ UNCHANGED <<logged, pending, cancels>>
       \/ \E t \in ProbeExcTypes :
            /\ probe' = Raise(t, "probe")
            /\ IF IsException(t)
                 THEN /\ logged' = TRUE
                      /\ pc' = "method"
                      /\ UNCHANGED pending
                 ELSE /\ pending' = Raise(t, "probe")
                      /\ pc' = "finally"
                      /\ UNCHANGED logged
            /\ UNCHANGED <<starts, cancels, sinceCall>>
            /\ UNCHANGED hbVars
    /\ UNCHANGED <<args, invoked, mArgs, joined, lateCall, flagCalls, flagSecs>>
    /\ UNCHANGED <<thVars, fnVars>>

\* inner: `if self._heartbeat(): timer.start()` under `except Exception`
InnerProbe ==
    /\ pc = "probe"
    /\ \/ /\ probe' = Ret("True")
          /\ HeartbeatStart
          /\ pc' = "method"
          /\ UNCHANGED <<logged, pending, cancels>>
       \/ /\ probe' = Ret("False")
          /\ pc' = "method"
          /\ UNCHANGED <<logged, pending, starts, cancels, sinceCall>>
          /\ UNCHANGED hbVars
       \/ \E t \in ProbeExcTypes :
            /\ probe' = Raise(t, "probe")
            /\ IF IsException(t)
                 THEN /\ logged' = TRUE
                      /\ pc' = "method"
                      /\ UNCHANGED pending
                 ELSE /\ pending' = Raise(t, "probe")
                      /\ pc' = "finally"
                      /\ UNCHANGED logged
            /\ UNCHANGED <<starts, cancels, sinceCall>>
            /\ UNCHANGED hbVars
    /\ UNCHANGED <<args, invoked, mArgs, joined, lateCall, flagCalls, flagSecs>>
    /\ UNCHANGED <<thVars, fnVars>>

\* inner: runner_method(self, *args, **kwargs) is entered; its body is a
\* call of timeout_handler on fn with the same arguments
InnerMethod ==
    /\ pc = "method"
    /\ invoked' = invoked + 1
    /\ mArgs' = args
    /\ pc' = "in_method"
    /\ \E t \in {NoTimeout} \cup Timeouts : TimeoutHandlerCall(t, args)
    /\ UNCHANGED <<args, probe, logged, pending, starts, cancels, joined,
                   sinceCall, lateCall, flagCalls, flagSecs>>
    /\ UNCHANGED hbVars

\* mutant of InnerReturn: no `finally`, cancel() is skipped when the
\* method raises
InnerReturnNoFinally ==
    /\ pc = "in_method"
    /\ Returned
    /\ pending' = thOut
    /\ pc' = IF thOut.kind = "raise" THEN "done" ELSE "finally"
    /\ UNCHANGED <<args, probe, logged, invoked, mArgs, starts, cancels,
                   joined, sinceCall, lateCall, flagCalls, flagSecs>>
    /\ UNCHANGED <<hbVars, thVars, fnVars>>

\* mutant of InnerReturn: a failure of the method is swallowed
InnerReturnSwallow ==
    /\ pc = "in_method"
    /\ Returned
    /\ pending' = IF thOut.kind = "raise" THEN Ret("None") ELSE thOut
    /\ pc' = "finally"
    /\ UNCHANGED <<args, probe, logged, invoked, mArgs, starts, cancels,
                   joined, sinceCall, lateCall, flagCalls, flagSecs>>
    /\ UNCHANGED <<hbVars, thVars, fnVars>>

\* inner: runner_method returns or raises what timeout_handler gave it
InnerReturn ==
    /\ pc = "in_method"
    /\ Returned
    /\ pending' = thOut
    /\ pc' = "finally"
    /\ UNCHANGED <<args, probe, logged, invoked, mArgs, starts, cancels,
                   joined, sinceCall, lateCall, flagCalls, flagSecs>>
    /\ UNCHANGED <<hbVars, thVars, fnVars>>

\* inner: `finally: timer.cancel()`
InnerFinally ==
    /\ pc = "finally"
    /\ HeartbeatCancel
    /\ pc' = IF executor # NoExecutor THEN "shutdown" ELSE "done"
    /\ UNCHANGED <<args, probe, logged, invoked, mArgs, pending, starts,
                   joined, sinceCall, lateCall, flagCalls, flagSecs>>
    /\ UNCHANGED <<thVars, fnVars>>

\* inner: executor.shutdown() returns, cancel() returns, inner returns
InnerShutdown ==
    /\ pc = "shutdown"
    /\ ShutdownDone
    /\ joined' = TRUE
    /\ pc' = "done"
    /\ UNCHANGED <<args, probe, logged, invoked, mArgs, pending, starts,
                   cancels, sinceCall, lateCall, flagCalls, flagSecs>>
    /\ UNCHANGED <<hbVars, thVars, fnVars>>

Init ==
    /\ HeartbeatInit
    /\ OwnerInit
    /\ TimeoutHandlerInit
    /\ pc = "probe"

Next ==
    \/ InnerProbe
    \/ InnerMethod
    \/ InnerReturn
    \/ InnerFinally
    \/ InnerShutdown
    \/ LooperNext
    \/ Second
    \/ TimeoutHandlerNext

Spec == Init /\ [][Next]_vars

\* ------------------------------------------------------------- a free owner

\* the owner calls start()
OwnerStart ==
    /\ pc = "owner"
    /\ HeartbeatStart
    /\ UNCHANGED <<pc, args, probe, logged, invoked, mArgs, pending, cancels,
                   joined, lateCall, flagCalls, flagSecs>>
    /\ UNCHANGED <<thVars, fnVars>>

\* mutant of OwnerCancel: no hasattr test, self.executor raises
\* AttributeError when start() was never called
OwnerCancelNoHasattr ==
    /\ pc = "owner"
    /\ cancels < MaxCancels
    /\ HeartbeatCancel
    /\ pc' = IF executor # NoExecutor THEN "shutdown" ELSE "raised"
    /\ UNCHANGED <<args, probe, logged, invoked, mArgs, pending, starts,
                   joined, sinceCall, lateCall, flagCalls, flagSecs>>
    /\ UNCHANGED <<thVars, fnVars>>

\* the owner calls cancel()
OwnerCancel ==
    /\ pc = "owner"
    /\ cancels < MaxCancels
    /\ HeartbeatCancel
    /\ pc' = IF executor # NoExecutor THEN "shutdown" ELSE "owner"
    /\ UNCHANGED <<args, probe, logged, invoked, mArgs, pending, starts,
                   joined, sinceCall, lateCall, flagCalls, flagSecs>>
    /\ UNCHANGED <<thVars, fnVars>>

\* executor.shutdown() returns and cancel() returns to the owner
OwnerShutdown ==
    /\ pc = "shutdown"
    /\ ShutdownDone
    /\ joined' = TRUE
    /\ pc' = "owner"
    /\ UNCHANGED <<args, probe, logged, invoked, mArgs, pending, starts,
                   cancels, sinceCall, lateCall, flagCalls, flagSecs>>
    /\ UNCHANGED <<hbVars, thVars, fnVars>>

InitHB ==
    /\ HeartbeatInit
    /\ OwnerInit
    /\ TimeoutHandlerInit
    /\ ctx["caller"] = DefaultCtx
    /\ fnLen = 1
    /\ fnHangs = FALSE
    /\ args = "a1"
    /\ pc = "owner"

NextHB ==
    \/ OwnerStart
    \/ OwnerCancel
    \/ OwnerShutdown
    \/ LooperNext
    \/ Second

SpecHB == InitHB /\ [][NextHB]_vars

\* the looper threads are scheduled and time passes
FairHB ==
    /\ SpecHB
    /\ \A l \in LoopIds : WF_vars(LooperTest(l))
    /\ \A l \in LoopIds : WF_vars(LooperCall(l))
    /\ \A l \in LoopIds : WF_vars(LooperCallReturn(l) \/ LooperCallRaise(l))
    /\ WF_vars(Second)

\* ------------------------------------------------------------- timeout_handler alone

\* a thread calls timeout_handler(fn, args, timeout=t)
DirectCall ==
    /\ pc = "direct"
    /\ \E t \in {NoTimeout} \cup Timeouts : TimeoutHandlerCall(t, args)
    /\ UNCHANGED <<hbVars, ownerVars>>

InitTH ==
    /\ HeartbeatInit
    /\ interval = 1
    /\ OwnerInit
    /\ TimeoutHandlerInit
    /\ pc = "direct"

NextTH ==
    \/ DirectCall
    \/ Second
    \/ TimeoutHandlerNext

SpecTH == InitTH /\ [][NextTH]_vars

\* the worker thread of the executor is scheduled
FairTH == SpecTH /\ WF_vars(WorkerStart) /\ WF_vars(FnStep) /\ WF_vars(WorkerFinish)

\* ------------------------------------------------------------- claims

\* C1: in every call of a method wrapped by run_with_heartbeat, cancel()
\* is invoked exactly once on the call's Heartbeat before control leaves
\* the wrapper, on every exit path (the method returns, the method
\* raises, the probe raises, the probe returns false): it has not been
\* invoked before the finally clause, and it has been invoked once from
\* then on.
C1_CancelExactlyOnce ==
    /\ pc \in {"probe", "method", "in_method", "finally"} => cancels = 0
    /\ pc \in {"shutdown", "done"} => cancels = 1

\* the wrapper has returned with the TimeoutError of a nested
\* timeout_handler after a heartbeat was started, and cancel() ran once
C1_Witness ==
    /\ pc = "done"
    /\ probe = Ret("True")
    /\ thPc = "expired"
    /\ pending = TimedOut
    /\ cancels = 1

\* C2: a caller of timeout_handler with a timeout never waits for the
\* dispatched task past the deadline, even when fn never terminates:
\* while the caller waits for an unfinished task, no more than `timeout`
\* seconds have passed since the wait began.
C2_WaitBounded == (thPc = "waiting" /\ fut = Nothing) => elapsed <= thTimeout

\* fn never terminates, and its caller has got TimeoutError at the deadline
C2_Witness ==
    /\ thPc = "expired"
    /\ thOut = TimedOut
    /\ fnHangs
    /\ wPc = "running"
    /\ effects = fnLen
    /\ elapsed = thTimeout

\* C3: when timeout_handler raises its timeout error the dispatched task
\* is neither cancelled nor interrupted: every step of fn is eventually
\* executed, and the outcome the caller received is never replaced by
\* the task's result or failure.
C3_TaskRunsOn ==
    /\ [][thPc = "expired" => (thPc' = "expired" /\ thOut' = TimedOut)]_vars
    /\ (thPc = "expired") ~> (effects = fnLen)

\* fn has run to its end with a step done after the caller received
\* TimeoutError, and the caller still holds TimeoutError
C3_Witness ==
    /\ thPc = "expired"
    /\ thOut = TimedOut
    /\ late
    /\ wPc = "done"
    /\ fut # Nothing
    /\ effects = fnLen

\* C4: timeout_handler with a timeout raises the timeout error if and
\* only if the deadline elapsed before the task completed; when the task
\* completes in time the caller receives exactly fn's result or exactly
\* the failure fn raised.
C4_TimeoutIffExpired ==
    (Returned /\ thTimeout # NoTimeout) =>
        /\ (thOut = TimedOut) <=> (thPc = "expired")
        /\ thPc = "returned" => thOut = fut

\* C5: timeout_handler(fn, timeout=None) runs fn on the caller's thread
\* with the original arguments, creates no executor, dispatches no task
\* and hands fn's result or failure to the caller unchanged.
C5_NoTimeoutIsDirectCall ==
    (thPc # "idle" /\ thTimeout = NoTimeout) =>
        /\ fnThread = "caller"
        /\ fnArgs = args
        /\ thExecutors = 0
        /\ wPc = "none"
        /\ thPc # "expired"
        /\ thPc = "returned" => (fnOut # Nothing /\ thOut = fnOut)

\* fn raised a timeout-typed failure on the caller's thread and the
\* caller received that very failure
C5_Witness ==
    /\ thTimeout = NoTimeout
    /\ thPc = "returned"
    /\ fnThread = "caller"
    /\ thOut = Raise("FutureTimeout", "fn")

\* C6: in a call with a timeout, the context fn observes on the worker
\* thread is the snapshot taken from the caller's context at dispatch,
\* whatever the caller's thread does to its own context afterwards.
C6_ContextIsSnapshot == fnThread = "worker" => fnCtx = _ctx_dict

\* fn runs on the worker while the caller's context is no longer what
\* it was at dispatch
C6_Witness ==
    /\ wPc = "running"
    /\ fnThread = "worker"
    /\ ctx["caller"] # _ctx_dict
    /\ fnCtx = _ctx_dict

\* C7 as stated: if the pre-flight call of self._heartbeat() raises, the
\* failure is logged and not propagated, no loop is started, and the
\* method is invoked once with the original arguments and its outcome
\* is the wrapper's.
C7_ProbeFailureContained ==
    (pc = "done" /\ probe.kind = "raise") =>
        /\ logged
        /\ pending # probe
        /\ starts = 0
        /\ invoked = 1
        /\ mArgs = args
        /\ pending = thOut

\* C7 amended: the same, for a probe failure that is an Exception
\* (the handler is `except Exception`).
C7_ProbeExceptionContained ==
    (probe = Raise("Exception", "probe")) =>
        /\ logged
        /\ starts = 0
        /\ \A l \in LoopIds : loops[l].pc = "none"
        /\ pc = "done" =>
             /\ pending # probe
             /\ invoked = 1
             /\ mArgs = args
             /\ pending = thOut

\* the probe raised an Exception, the method ran and its result came back
C7_Witness ==
    /\ pc = "done"
    /\ probe = Raise("Exception", "probe")
    /\ logged
    /\ invoked = 1
    /\ pending.kind = "ret"

\* C8 as stated: for every input the wrapped method is invoked exactly
\* once with the original arguments and its result or failure is the
\* wrapper's, unchanged, whether or not a heartbeat was started.
C8_WrapperIsTransparent ==
    pc = "done" =>
        /\ invoked = 1
        /\ mArgs = args
        /\ Returned
        /\ pending = thOut

\* C8 amended: the same, unless the pre-flight probe raised a failure
\* that is not an Exception (which propagates before the method is
\* reached).
C8_TransparentPastProbe ==
    (pc = "done" /\ probe # Raise("BaseException", "probe")) =>
        /\ invoked = 1
        /\ mArgs = args
        /\ Returned
        /\ pending = thOut

\* a heartbeat was started and joined, the method raised and the wrapper
\* raised the same failure
C8_Witness ==
    /\ pc = "done"
    /\ probe = Ret("True")
    /\ joined
    /\ invoked = 1
    /\ pending = Raise("Exception", "fn")

\* C9: for every interval >= 1 a Heartbeat that has been started and not
\* cancelled invokes its callback at least once in every window of
\* `interval` seconds: no more than `interval` seconds have passed since
\* start() or the callback's last invocation.
C9_CallbackEveryInterval ==
    (executor # NoExecutor /\ ~_exit) => sinceCall <= interval

\* C10: when cancel() returns on a Heartbeat that was started once, the
\* loop has terminated: no callback is in progress and none has begun
\* since a cancel() returned.
C10_CancelJoinsLoop ==
    (joined /\ starts = 1) =>
        /\ loops[1].pc \in {"exit", "dead"}
        /\ ~lateCall

\* cancel() has returned to the owner of a Heartbeat started once, whose
\* loop saw the flag and left
C10_Witness ==
    /\ joined
    /\ starts = 1
    /\ cancels = 1
    /\ pc = "owner"
    /\ loops[1].pc = "exit"

\* C11: a failure raised by the callback on a tick is contained: the
\* loop keeps running and goes on invoking the callback until cancel()
\* is called, so a started loop is running as long as the flag is not
\* set.
C11_CallbackFailureContained ==
    \A l \in LoopIds : (loops[l].pc # "none" /\ ~_exit) => Running(l)

\* C12: cancel() neither raises nor blocks when start() was never
\* called, and any number of cancel() calls is safe: the owner is only
\* ever idle or in shutdown(), the flag is set once a cancel() was made,
\* and a cancel() that follows a completed one finds the looper ended.
C12_CancelIsSafe ==
    /\ pc \in {"owner", "shutdown"}
    /\ starts = 0 => pc = "owner"
    /\ cancels >= 1 => _exit
    /\ (pc = "shutdown" /\ joined /\ starts = 1) =>
           loops[executor].pc \in {"exit", "dead"}

\* cancel() was called twice on a Heartbeat never started and returned
C12_Witness ==
    /\ starts = 0
    /\ cancels = 2
    /\ pc = "owner"
    /\ _exit

\* C13: in a wrapped call a loop is started if and only if the
\* pre-flight probe returned true; when it returned false or raised, no
\* loop exists at any point, no executor exists and the final cancel()
\* has nothing to join.
C13_StartIffProbeTrue ==
    /\ starts <= 1
    /\ (starts = 1) <=> (probe = Ret("True"))
    /\ probe # Ret("True") =>
         /\ \A l \in LoopIds : loops[l].pc = "none"
         /\ executor = NoExecutor
         /\ pc # "shutdown"
         /\ ~joined

\* the probe returned false, the call is over and no loop ever existed
C13_Witness ==
    /\ pc = "done"
    /\ probe = Ret("False")
    /\ invoked = 1
    /\ cancels = 1
    /\ starts = 0

\* C14: in a wrapped call the order is: one pre-flight probe, start()
\* if the probe returned true, the wrapped method, cancel(); and while
\* the method executes after a true probe the heartbeat loop is running
\* and the flag is not set.
C14_OrderAndLoopRunning ==
    /\ pc = "probe" => (starts = 0 /\ invoked = 0 /\ cancels = 0)
    /\ pc = "method" => (invoked = 0 /\ cancels = 0)
    /\ pc = "in_method" =>
         /\ invoked = 1
         /\ cancels = 0
         /\ probe = Ret("True") => (Running(1) /\ ~_exit)
    /\ cancels >= 1 => pc \in {"shutdown", "done"}

\* C15: for every positive interval the rate is 1, the tick counter
\* stays within 0..interval-1, and the callback is due at every value
\* of the counter, the first one included.
C15_RateOneEveryTick ==
    /\ rate = 1
    /\ \A l \in LoopIds :
         /\ loops[l].iters \in 0..(interval - 1)
         /\ loops[l].iters % rate = 0

\* the callback runs at the last value of the counter of the longest
\* interval
C15_Witness ==
    /\ interval = MaxInterval
    /\ loops[1].pc = "call"
    /\ loops[1].iters = interval - 1

\* C16: a Heartbeat is not restartable: a looper submitted by a start()
\* that follows cancel() only tests the flag and exits, its callback is
\* never invoked.
C16_NotRestartable ==
    \A l \in LoopIds : loops[l].born => loops[l].pc \in {"test", "exit"}

\* a looper submitted after cancel() has exited
C16_Witness ==
    /\ starts = 2
    /\ loops[1].pc = "exit"
    /\ ~loops[1].born
    /\ loops[2].born
    /\ loops[2].pc = "exit"

\* C17: after start() was called twice, the loops read the same flag
\* and one cancel() makes every loop end, under fair scheduling.
C17_OneCancelStopsBoth ==
    (starts >= 2 /\ _exit) ~> (\A l \in LoopIds : ~Running(l))

\* two loops started before the one cancel() have both seen the flag
C17_Witness ==
    /\ starts = 2
    /\ cancels = 1
    /\ ~loops[2].born
    /\ loops[1].pc = "exit"
    /\ loops[2].pc = "exit"

\* C18: the flag has one writer: it is false until the first cancel(),
\* set by cancel() alone and set ever after.
C18_FlagSetByCancelOnly == _exit <=> (cancels >= 1)

\* the flag is set after one cancel() and a looper has ended on it
C18_Witness ==
    /\ _exit
    /\ cancels = 1
    /\ loops[1].pc = "exit"

\* C19: in a call with a timeout, what the task does to the context on
\* the worker thread leaves the caller's context as it was (the snapshot
\* while the caller waits, never fn's value), and when the task ends the
\* worker's context is what it was before the task.
C19_ContextScopedToTask ==
    thTimeout # NoTimeout =>
        /\ ctx["caller"] # FnCtxWrite
        /\ thPc = "waiting" => ctx["caller"] = _ctx_dict
        /\ wPc = "done" => (ctx["worker"] = wPrev /\ wPrev = DefaultCtx)

\* fn raised on the worker, whose context is back from the snapshot to
\* what it was
C19_Witness ==
    /\ wPc = "done"
    /\ fut.kind = "raise"
    /\ wPrev # _ctx_dict
    /\ ctx["worker"] = wPrev

\* C20: after cancel() has set the flag on a Heartbeat with one loop, at
\* most one more callback invocation begins, and the loop ends at its
\* next test of the flag, at most one sleep of `rate` seconds later.
C20_AtMostOneMoreCall ==
    starts = 1 => (flagCalls <= 1 /\ flagSecs <= 1)

\* the flag was set between the loop's test and its call: one more
\* invocation began, ran to its end, and the loop left after its sleep
C20_Witness ==
    /\ starts = 1
    /\ flagCalls = 1
    /\ flagSecs = 1
    /\ loops[1].pc = "exit"

====
